---- MODULE Spec2Model ----
(***************************************************************************)
(* Chunk decoding of mince-raft-rs (src/world/chunks.rs): the coordinate   *)
(* mappers, the section decoder, the height map decoder and the Chunk      *)
(* aggregate with its per-section render artifact.                         *)
(*                                                                         *)
(* Representation.  A byte is a number in 0..255.  An i64 is the tuple of  *)
(* its 8 big-endian bytes (what i64::from_be_bytes is given).  An          *)
(* Option<T> is a tuple of length 0 (None) or 1 (Some).  A fixed array     *)
(* [T; n] is a function on 0..n-1.  A Vec<T> is a sequence.                *)
(***************************************************************************)
EXTENDS Integers, Sequences, FiniteSets, TLC

VARIABLES
    data,     \* the ChunkData packet handed to Chunk::new
    given,    \* how the packet was put together (the sender's side of it)
    pc,       \* "start", then "built" | "panicked" (Chunk::new), "mesh_panicked"
              \* (load_mesh); "pure" where no Chunk is involved
    chunk,    \* Option<Chunk>: the value Chunk::new returned
    cur,      \* position of process_sections' cursor when it returned
    coords,   \* argument of the coordinate functions
    res,      \* results of the coordinate functions, in the order applied
    last      \* the last query made of the Chunk and its answer

vars == <<data, given, pc, chunk, cur, coords, res, last>>

---------------------------------------------------------------------------
(* Program constants *)

MAX_BITS_PER_BLOCK == 15
SECTIONS_PER_CHUNK == 16
BLOCKS_PER_SECTION == 4096
HEIGHTMAP_LEN == 256

None == << >>
Some(x) == <<x>>
IsSome(o) == Len(o) = 1
Unwrap(o) == o[1]

Pow2(n) == 2 ^ n

---------------------------------------------------------------------------
(* Integer casts and operators of the language *)

\* v as u16, for v an i32 or a masked i64: the low 16 bits.
AsU16(v) == v % 65536

\* A usize no array of the program is long enough for; stands for the values
\* of 2^63 and above that a negative i32 becomes under `as usize`.
HugeUsize == Pow2(30)

\* v as usize, for v an i32.
AsUsize(v) == IF v < 0 THEN HugeUsize ELSE v

\* a % n of the language: the remainder takes the sign of a.
RemTrunc(a, n) == IF a >= 0 \/ a % n = 0 THEN a % n ELSE (a % n) - n

\* a.rem_euclid(n), n > 0.
rem_euclid(a, n) == a % n

\* a / n of the language: the quotient rounded towards 0.
DivTrunc(a, n) == IF a >= 0 \/ a % n = 0 THEN a \div n ELSE (a \div n) + 1

\* a.div_floor(n), n > 0.
div_floor(a, n) == a \div n

\* (long >> start) & mask on an i64, for mask = 2^w - 1 with w <= 16.  The
\* shift is arithmetic: bytes above the eighth are copies of the sign.
ShrMask(long, start, mask) ==
    LET q == start \div 8
        B(i) == IF i > 7 THEN (IF long[1] >= 128 THEN 255 ELSE 0) ELSE long[8 - i]
        n == B(q) + 256 * B(q + 1) + 65536 * B(q + 2)
    IN  (n \div Pow2(start % 8)) % (mask + 1)

\* mask & (1 << i) != 0 on an i32 (two's complement).
BitSet(mask, i) == (mask \div Pow2(i)) % 2 = 1

---------------------------------------------------------------------------
(* Reading from the cursor.  A read returns [ok, pos, val]: whether it     *)
(* succeeded, the cursor position after it, and what was read.             *)

Fail(pos) == [ok |-> FALSE, pos |-> pos, val |-> << >>]

read_exact(bytes, pos, n) ==
    IF pos + n <= Len(bytes)
    THEN [ok |-> TRUE, pos |-> pos + n, val |-> SubSeq(bytes, pos + 1, pos + n)]
    ELSE Fail(pos)

\* The wire's variable-length i32: 7 bits a byte, low group first, the high
\* bit of a byte says another follows; at most 5 bytes.
RECURSIVE VarIntLoop(_, _, _, _)
VarIntLoop(bytes, pos, k, acc) ==
    IF pos >= Len(bytes) THEN Fail(pos)
    ELSE LET b == bytes[pos + 1]
             part == b % 128
             top == (part % 16) - (IF part % 16 >= 8 THEN 16 ELSE 0)
             acc2 == IF k < 4 THEN acc + part * Pow2(7 * k) ELSE acc + top * Pow2(28)
         IN  IF b < 128 THEN [ok |-> TRUE, pos |-> pos + 1, val |-> acc2]
             ELSE IF k = 4 THEN Fail(pos)
             ELSE VarIntLoop(bytes, pos + 1, k + 1, acc2)

read_varint(bytes, pos) == VarIntLoop(bytes, pos, 0, 0)

---------------------------------------------------------------------------
(* process_sections *)

\* The bits-per-block byte as normalised, with the > 9 slip of a decoder that
\* lets 9 through.
bits_per_block_gt9(raw) ==
    LET b1 == IF raw <= 4 THEN 4 ELSE raw
    IN  IF b1 > 9 THEN MAX_BITS_PER_BLOCK ELSE b1

\* let mut bits_per_block = buf[0] as u64, then the two clamps.
bits_per_block(raw) ==
    LET b1 == IF raw <= 4 THEN 4 ELSE raw
    IN  IF b1 >= 9 THEN MAX_BITS_PER_BLOCK ELSE b1

\* for _ in 0..n { v.push(read_varint(cur).unwrap()) }: the n reads in
\* order, each from where the one before it ended, the first failure ending
\* them.  The run of n reads is taken as its first half followed by its
\* second half, which keeps the evaluation shallow for a long palette.
RECURSIVE ReadVarInts(_, _, _, _)
ReadVarInts(bytes, pos, n, acc) ==
    IF n = 0 THEN [ok |-> TRUE, pos |-> pos, val |-> acc]
    ELSE IF n = 1
    THEN LET r == read_varint(bytes, pos)
         IN  IF ~r.ok THEN Fail(r.pos)
             ELSE [ok |-> TRUE, pos |-> r.pos, val |-> Append(acc, r.val)]
    ELSE LET h == ReadVarInts(bytes, pos, n \div 2, acc)
         IN  IF ~h.ok THEN h
             ELSE ReadVarInts(bytes, h.pos, n - (n \div 2), h.val)

\* The palette: Some(entries) when bits < 9, None otherwise.  A negative
\* count is, as usize, more entries than any stream holds: the reads run
\* into the end of the stream.
palette(bytes, pos, bits) ==
    IF bits < 9
    THEN LET palette_len == read_varint(bytes, pos)
         IN  IF ~palette_len.ok THEN Fail(palette_len.pos)
             ELSE IF AsUsize(palette_len.val) > Len(bytes) THEN Fail(Len(bytes))
             ELSE LET v == ReadVarInts(bytes, palette_len.pos, palette_len.val, << >>)
                  IN  IF ~v.ok THEN v ELSE [v EXCEPT !.val = Some(v.val)]
    ELSE [ok |-> TRUE, pos |-> pos, val |-> None]

\* i64::from_be_bytes of the 8 bytes that follow position p.
from_be_bytes(bytes, p) ==
    <<bytes[p + 1], bytes[p + 2], bytes[p + 3], bytes[p + 4],
      bytes[p + 5], bytes[p + 6], bytes[p + 7], bytes[p + 8]>>

\* The long array read with the bytes the stream lacks taken as 0.
array_zero_fill(bytes, pos) ==
    LET array_len == read_varint(bytes, pos)
        byte(p) == IF p <= Len(bytes) THEN bytes[p] ELSE 0
    IN  IF ~array_len.ok THEN Fail(array_len.pos)
        ELSE IF AsUsize(array_len.val) > ((Len(bytes) - array_len.pos) \div 8) + 1
             THEN Fail(Len(bytes))
        ELSE [ok |-> TRUE,
              pos |-> array_len.pos + 8 * array_len.val,
              val |-> [k \in 1..array_len.val |->
                          [b \in 1..8 |-> byte(array_len.pos + 8 * (k - 1) + b)]]]

\* The long array: a count, then that many big-endian i64.
array(bytes, pos) ==
    LET array_len == read_varint(bytes, pos)
    IN  IF ~array_len.ok THEN Fail(array_len.pos)
        ELSE IF AsUsize(array_len.val) > (Len(bytes) - array_len.pos) \div 8
             THEN Fail(Len(bytes))
        ELSE [ok |-> TRUE,
              pos |-> array_len.pos + 8 * array_len.val,
              val |-> [k \in 1..array_len.val |->
                          from_be_bytes(bytes, array_len.pos + 8 * (k - 1))]]

\* The mask of the low `bits` bits.
BlockMask(bits) == Pow2(bits) - 1

\* The extraction loop: blocks[j] for every j, or a panic on an index out of
\* the array's or of the palette's bounds.
blocks(arr, bits, pal) ==
    LET blocks_per_long == 64 \div bits
        block(j) == ShrMask(arr[(j \div blocks_per_long) + 1],
                            (j % blocks_per_long) * bits, BlockMask(bits))
    IN  IF \E j \in 0..(BLOCKS_PER_SECTION - 1) : (j \div blocks_per_long) >= Len(arr)
        THEN [ok |-> FALSE, val |-> << >>]
        ELSE IF IsSome(pal)
        THEN IF \E j \in 0..(BLOCKS_PER_SECTION - 1) : block(j) >= Len(Unwrap(pal))
             THEN [ok |-> FALSE, val |-> << >>]
             ELSE [ok |-> TRUE,
                   val |-> [j \in 0..(BLOCKS_PER_SECTION - 1) |->
                               AsU16(Unwrap(pal)[block(j) + 1])]]
        ELSE [ok |-> TRUE, val |-> [j \in 0..(BLOCKS_PER_SECTION - 1) |-> AsU16(block(j))]]

\* The body of the loop over the sections, for a present section i.
DecodeSection(bytes, pos, i) ==
    LET block_count == read_exact(bytes, pos, 2)
    IN  IF ~block_count.ok THEN Fail(block_count.pos) ELSE
    LET raw == read_exact(bytes, block_count.pos, 1)
    IN  IF ~raw.ok THEN Fail(raw.pos) ELSE
    LET bits == bits_per_block(raw.val[1])
        pal == palette(bytes, raw.pos, bits)
    IN  IF ~pal.ok THEN Fail(pal.pos) ELSE
    LET arr == array(bytes, pal.pos)
    IN  IF ~arr.ok THEN Fail(arr.pos) ELSE
    LET b == blocks(arr.val, bits, pal.val)
    IN  IF ~b.ok THEN Fail(arr.pos)
        ELSE [ok |-> TRUE, pos |-> arr.pos, val |-> [y |-> i, blocks |-> b.val]]

\* chunk_sections_present[i], with the shift applied to the masked bit.
SectionPresentShiftLast(mask, i) == BitSet(mask, 0)

\* chunk_sections_present[i]
SectionPresent(mask, i) == BitSet(mask, i)

RECURSIVE SectionLoop(_, _, _, _)
SectionLoop(d, i, pos, sections) ==
    IF i = SECTIONS_PER_CHUNK THEN [ok |-> TRUE, pos |-> pos, val |-> sections]
    ELSE IF ~SectionPresent(d.primary_bit_mask, i) THEN SectionLoop(d, i + 1, pos, sections)
    ELSE LET s == DecodeSection(d.data, pos, i)
         IN  IF ~s.ok THEN Fail(s.pos)
             ELSE SectionLoop(d, i + 1, s.pos,
                      [sections EXCEPT ![i] = Some([section |-> s.val, vbo |-> None])])

process_sections(d) ==
    SectionLoop(d, 0, 0, [i \in 0..(SECTIONS_PER_CHUNK - 1) |-> None])

---------------------------------------------------------------------------
(* process_heightmap.  A tag is [tag, entries, longs]: its kind, the named *)
(* tags of a compound, the i64s of a long array.  A named tag is           *)
(* [name, payload].                                                        *)

ZeroMap == [i \in 0..(HEIGHTMAP_LEN - 1) |-> 0]

\* let long = 1 / vals_per_long, with vals_per_long = 7
HeightLong(i) == 1 \div 7

\* map[i] = ((longs[long] >> offset) & 0x1ff) as u16
HeightEntry(longs, i) == AsU16(ShrMask(longs[HeightLong(i) + 1], (i % 7) * 9, 511))

\* The name test of the loop, letting every long array through.
IsSurfaceEntryAnyName(e) == e.payload.tag = "LongArray"

\* The entries the loop does not skip: long arrays named MOTION_BLOCKING.
IsSurfaceEntry(e) == e.payload.tag = "LongArray" /\ e.name = "MOTION_BLOCKING"

\* for heightmap in heightmaps { ... }: [ok, val], not ok for the panic of
\* longs[0] on an empty array.
RECURSIVE HeightLoop(_, _, _)
HeightLoop(entries, k, map) ==
    IF k > Len(entries) THEN [ok |-> TRUE, val |-> map]
    ELSE IF IsSurfaceEntry(entries[k])
    THEN IF HeightLong(0) >= Len(entries[k].payload.longs)
         THEN [ok |-> FALSE, val |-> map]
         ELSE HeightLoop(entries, k + 1,
                  [i \in 0..(HEIGHTMAP_LEN - 1) |-> HeightEntry(entries[k].payload.longs, i)])
    ELSE HeightLoop(entries, k + 1, map)

process_heightmap(d) ==
    LET root == d.heightmaps
    IN  IF root.tag = "Compound"
        THEN IF Len(root.entries) # 2 THEN [ok |-> TRUE, val |-> ZeroMap]
             ELSE HeightLoop(root.entries, 1, ZeroMap)
        ELSE [ok |-> TRUE, val |-> ZeroMap]

---------------------------------------------------------------------------
(* Coordinates: IVec3 is <<x, y, z>>, IVec2 is <<x, y>>. *)

\* ChunkSection::map_from_chunk_coords with the remainder of the % operator.
map_from_chunk_coords_rem(c) == <<c[1], RemTrunc(c[2], 16), c[3]>>

map_from_chunk_coords(c) == <<c[1], rem_euclid(c[2], 16), c[3]>>

map_to_chunk_coords(y, c) == <<c[1], y * 16 + c[2], c[3]>>

section_containing(y) == AsUsize(y) \div 16

map_from_world_coords(c) == <<rem_euclid(c[1], 16), c[2], rem_euclid(c[3], 16)>>

\* [ok, val]: not ok when an assert! fails.
map_to_world_coords(pos, c) ==
    IF c[1] >= 0 /\ c[1] < 16 /\ c[3] >= 0 /\ c[3] < 16
    THEN [ok |-> TRUE, val |-> <<pos[1] * 16 + c[1], c[2], pos[2] * 16 + c[3]>>]
    ELSE [ok |-> FALSE, val |-> << >>]

\* Chunk::chunk_containing dividing as the / operator does.
chunk_containing_trunc(c) == <<DivTrunc(c[1], 16), DivTrunc(c[3], 16)>>

chunk_containing(c) == <<div_floor(c[1], 16), div_floor(c[3], 16)>>

block_pos_to_index(pos) == AsUsize(RemTrunc(pos[2], 16) * 16 * 16 + pos[3] * 16 + pos[1])

block_index_to_pos(i) == <<i % 16, i \div (16 * 16), (i \div 16) % 16>>

---------------------------------------------------------------------------
(* Chunk: [pos, heightmap, sections], sections[i] an Option of             *)
(* [section |-> [y, blocks], vbo |-> Option of the vertices uploaded].     *)

\* self.sections.get(y).unwrap_or(&None)
SlotAt(c, y) == IF y \in 0..(SECTIONS_PER_CHUNK - 1) THEN c.sections[y] ELSE None

\* Chunk::get_section: the section a read guard gives access to.
get_section(c, y) == IF IsSome(SlotAt(c, y)) THEN Some(Unwrap(SlotAt(c, y)).section) ELSE None

get_section_vbo(c, y) == IF IsSome(SlotAt(c, y)) THEN Unwrap(SlotAt(c, y)).vbo ELSE None

\* ChunkSection::block_at, the registry's entry named by its block state id.
section_block_at(s, sc) ==
    LET i == block_pos_to_index(sc)
    IN  IF i < BLOCKS_PER_SECTION THEN [ok |-> TRUE, val |-> Some(s.blocks[i])]
        ELSE [ok |-> FALSE, val |-> None]

\* Chunk::block_at
block_at(c, cc) ==
    LET s == get_section(c, section_containing(cc[2]))
    IN  IF IsSome(s) THEN section_block_at(Unwrap(s), map_from_chunk_coords(cc))
        ELSE [ok |-> TRUE, val |-> None]

get_highest_block(c, xz) == c.heightmap[AsUsize(xz[2]) * 16 + AsUsize(xz[1])]

\* Chunk::load_mesh taking the artifact away from every other section.
load_mesh_clears(c, verts, section) ==
    IF IsSome(SlotAt(c, section))
    THEN [c EXCEPT !.sections =
             [i \in 0..(SECTIONS_PER_CHUNK - 1) |->
                 IF IsSome(c.sections[i])
                 THEN Some([Unwrap(c.sections[i]) EXCEPT
                               !.vbo = IF i = section THEN Some(verts) ELSE None])
                 ELSE None]]
    ELSE c

\* Chunk::load_mesh, the vertex buffer built: cs.1 = Some(buffer).
load_mesh(c, verts, section) ==
    IF IsSome(SlotAt(c, section))
    THEN [c EXCEPT !.sections[section] = Some([Unwrap(@) EXCEPT !.vbo = Some(verts)])]
    ELSE c

---------------------------------------------------------------------------
(* The sender's side: packets put together from known blocks.  A record of *)
(* the stream is described by                                              *)
(*   bpb    the bits-per-block byte sent                                   *)
(*   kind   which palette is sent (when the width sent has one)            *)
(*   pat    the pattern the 4096 packed values follow                      *)
(*   extra  longs declared and sent beyond (or, negative, short of) the    *)
(*          number 4096 values of that width need                          *)
(*   oob    1 when one packed value is the palette's length                *)
(*   pad    the value of the bits of a long that hold no value             *)

MaxPattern == 2
MaxTailCut == 9
MaxHeadLen == 12
MaxShift == 1

\* The width a bits-per-block byte stands for.
WidthOf(b) == IF b <= 4 THEN 4 ELSE IF b >= 9 THEN 15 ELSE b

HasPalette(r) == WidthOf(r.bpb) < 9

Pat(p, j) == IF p = 0 THEN 1 ELSE j * (7 * p + 1) + (j \div 16) * p

\* The palettes sent: the three-entry one, one with entries that are no u16,
\* and one with an entry for every value of the width.
PalLen(r) == IF r.kind = 1 THEN 3 ELSE IF r.kind = 2 THEN 5 ELSE Pow2(WidthOf(r.bpb))
PalAt(r, k) ==
    IF r.kind = 1 THEN <<1, 42, 7>>[k]
    ELSE IF r.kind = 2 THEN <<0, 65535, 70000, -1, 300>>[k]
    ELSE (k * 257 + 3) % 32768
Pal(r) == [k \in 1..PalLen(r) |-> PalAt(r, k)]

\* The value packed for slot j.
Idx(r, j) ==
    IF r.oob = 1 /\ j = 2049 THEN PalLen(r)
    ELSE Pat(r.pat, j) % (IF HasPalette(r) THEN PalLen(r) ELSE 32768)

NeededLongs(w) == (4095 \div (64 \div w)) + 1

SentLongs(r) == NeededLongs(WidthOf(r.bpb)) + r.extra

\* The value in place s of long k (from 0) of the packed array: a block's,
\* or the padding of the places and bits that hold none.
PackSlot(r, k, s) ==
    LET w == WidthOf(r.bpb)
        per == 64 \div w
    IN  IF s < per /\ k * per + s < 4096 THEN Idx(r, k * per + s) ELSE r.pad * (Pow2(w) - 1)

\* What place s gives to the byte of a long whose lowest bit is bit lo.
PackPart(r, k, s, lo) ==
    LET sh == s * WidthOf(r.bpb) - lo
    IN  (IF sh >= 0 THEN PackSlot(r, k, s) * Pow2(sh) ELSE PackSlot(r, k, s) \div Pow2(-sh)) % 256

\* Byte m (from 1) of the packed array, each long big-endian: the places
\* that overlap it are at most three.
PackByte(r, m) ==
    LET k == (m - 1) \div 8
        lo == 8 * (7 - ((m - 1) % 8))
        s0 == lo \div WidthOf(r.bpb)
        s1 == (lo + 7) \div WidthOf(r.bpb)
    IN  PackPart(r, k, s0, lo)
        + (IF s0 + 1 <= s1 THEN PackPart(r, k, s0 + 1, lo) ELSE 0)
        + (IF s0 + 2 <= s1 THEN PackPart(r, k, s0 + 2, lo) ELSE 0)

RECURSIVE EncVarU(_)
EncVarU(v) == IF v < 128 THEN <<v>> ELSE <<128 + (v % 128)>> \o EncVarU(v \div 128)

EncodeVarInt(v) ==
    IF v >= 0 THEN EncVarU(v)
    ELSE LET lo == v % Pow2(28)
         IN  <<128 + (lo % 128), 128 + ((lo \div Pow2(7)) % 128), 128 + ((lo \div Pow2(14)) % 128),
               128 + ((lo \div Pow2(21)) % 128), (v \div Pow2(28)) % 16>>

\* The entries lo..hi of vs, one after the other.
RECURSIVE EncodeVarInts(_, _, _)
EncodeVarInts(vs, lo, hi) ==
    IF lo > hi THEN << >>
    ELSE IF lo = hi THEN EncodeVarInt(vs[lo])
    ELSE LET mid == (lo + hi) \div 2
         IN  EncodeVarInts(vs, lo, mid) \o EncodeVarInts(vs, mid + 1, hi)

EncodeSection(r) ==
    <<16, 0, r.bpb>>
    \o (IF HasPalette(r) THEN EncodeVarInt(PalLen(r)) \o EncodeVarInts(Pal(r), 1, PalLen(r)) ELSE << >>)
    \o EncodeVarInt(SentLongs(r))
    \o [m \in 1..(8 * SentLongs(r)) |-> PackByte(r, m)]

RECURSIVE EncodeSections(_, _)
EncodeSections(recs, k) ==
    IF k > Len(recs) THEN << >> ELSE EncodeSection(recs[k]) \o EncodeSections(recs, k + 1)

\* The length of a record and of a stream, and the offset of record k.
SectionLen(r) ==
    3 + (IF HasPalette(r) THEN Len(EncodeVarInt(PalLen(r))) + Len(EncodeVarInts(Pal(r), 1, PalLen(r)))
         ELSE 0)
      + Len(EncodeVarInt(SentLongs(r))) + 8 * SentLongs(r)

RECURSIVE RecordStart(_, _)
RecordStart(recs, k) ==
    IF k = 1 THEN 0 ELSE RecordStart(recs, k - 1) + SectionLen(recs[k - 1])

StreamLen(recs) == RecordStart(recs, Len(recs) + 1)

Recipe(b, kind, p, e, o) ==
    [bpb |-> b, kind |-> IF WidthOf(b) < 9 THEN kind ELSE 0,
     pat |-> p, extra |-> e, oob |-> o, pad |-> p % 2]

GoodRecipes ==
    {Recipe(b, kind, p, 0, 0) : b \in {0, 4, 5, 6, 7, 8}, kind \in 1..3, p \in 0..MaxPattern}
    \cup {Recipe(b, 1, p, 0, 0) : b \in {9, 15, 255}, p \in 0..MaxPattern}

BadRecipes ==
    {Recipe(b, kind, 1, e, 0) : b \in {4, 6, 15}, kind \in 1..2, e \in {-1, 1}}
    \cup {Recipe(b, kind, 1, 0, 1) : b \in {4, 6}, kind \in 1..2}

\* The height tree of a packet that is about its sections.
HeightLongs(p, n) == [k \in 1..n |-> [b \in 1..8 |-> (k * 29 + b * 7 * p + p) % 256]]
LongArrayTag(name, longs) ==
    [name |-> name, payload |-> [tag |-> "LongArray", entries |-> << >>, longs |-> longs]]
OtherTag(name) ==
    [name |-> name, payload |-> [tag |-> "Int", entries |-> << >>, longs |-> << >>]]
CompoundOf(entries) == [tag |-> "Compound", entries |-> entries, longs |-> << >>]
UsualHeights ==
    CompoundOf(<<LongArrayTag("MOTION_BLOCKING", HeightLongs(1, 37)),
                 LongArrayTag("WORLD_SURFACE", HeightLongs(2, 37))>>)

\* The first n of a pool of records, taken in turn from the pool.
Pool == <<Recipe(4, 1, 0, 0, 0), Recipe(15, 1, 1, 0, 0), Recipe(6, 2, 2, 0, 0)>>
PoolRecs(n, shift) == [k \in 1..n |-> Pool[((k + shift) % Len(Pool)) + 1]]

RECURSIVE PopCount(_, _)
PopCount(mask, i) ==
    IF i = 16 THEN 0 ELSE (IF (mask \div Pow2(i)) % 2 = 1 THEN 1 ELSE 0) + PopCount(mask, i + 1)

\* A packet: the bitmask, the records sent, and how many bytes of the
\* stream's end are missing.
Packet(mask, recs, cut) == [mask |-> mask, recs |-> recs, cut |-> cut]

Cuts(recs) ==
    LET n == StreamLen(recs)
    IN  {c \in 1..MaxTailCut : c <= n} \cup {n - h : h \in {h \in 0..MaxHeadLen : h < n}}
        \cup {SectionLen(recs[Len(recs)])}

DecodePackets ==
    {Packet(1, <<r>>, 0) : r \in GoodRecipes \cup BadRecipes}
    \cup {Packet(m, PoolRecs(PopCount(m, 0), s), 0) :
             m \in {0, 5, 32768, 32769, 65536 + 2064}, s \in 0..MaxShift}
    \cup {Packet(-1, PoolRecs(16, 0), 0)}
    \cup UNION {{Packet(1, <<r>>, c) : c \in Cuts(<<r>>)} :
             r \in {Recipe(4, 1, 0, 0, 0), Recipe(15, 1, 1, 0, 0), Recipe(8, 3, 1, 0, 0)}}
    \cup {Packet(5, PoolRecs(2, 0), c) : c \in Cuts(PoolRecs(2, 0))}
    \cup {Packet(1, PoolRecs(2, 0), 0), Packet(5, PoolRecs(2, 0) \o <<Recipe(4, 1, 1, 1, 0)>>, 0)}

BuildData(g, heights) ==
    LET stream == EncodeSections(g.recs, 1)
    IN  [position |-> <<-1, 2>>, primary_bit_mask |-> g.mask, heightmaps |-> heights,
         data |-> SubSeq(stream, 1, Len(stream) - g.cut)]

---------------------------------------------------------------------------
(* Actions *)

NoQuery == [op |-> "none", arg |-> << >>, out |-> None]

\* Chunk::new: the fields are evaluated in the order written, and a panic of
\* either decoder unwinds out of it.
ChunkNew ==
    /\ pc = "start"
    /\ LET h == process_heightmap(data)
           s == process_sections(data)
       IN  IF h.ok /\ s.ok
           THEN /\ chunk' = Some([pos |-> <<data.position[1], data.position[2]>>,
                                  heightmap |-> h.val, sections |-> s.val])
                /\ pc' = "built"
                /\ cur' = s.pos
           ELSE /\ chunk' = None
                /\ pc' = "panicked"
                /\ cur' = IF h.ok THEN s.pos ELSE 0
    /\ UNCHANGED <<data, given, coords, res, last>>

MaxSectionArg == 3
MaxVerts == 2

\* The section indices asked for: the low ones, and one past the last.
SectionArgs == 0..MaxSectionArg \cup {SECTIONS_PER_CHUNK}

\* load_mesh takes &mut self and the queries &self: a call of one is over
\* before a call of another begins, the read guard of a query included.
LoadMesh ==
    /\ pc = "built"
    /\ \E section \in SectionArgs, verts \in 1..MaxVerts :
           chunk' = Some(load_mesh(Unwrap(chunk), verts, section))
    /\ UNCHANGED <<data, given, pc, cur, coords, res, last>>

\* VertexBuffer::new(..).unwrap() panics: the closure runs for a populated
\* section only, and the assignment is not reached.
LoadMeshPanics ==
    /\ pc = "built"
    /\ \E section \in SectionArgs : IsSome(SlotAt(Unwrap(chunk), section))
    /\ pc' = "mesh_panicked"
    /\ UNCHANGED <<data, given, chunk, cur, coords, res, last>>

\* Chunk::get_section, the guard read and dropped: the answer kept is the y
\* of the section.
GetSection ==
    /\ pc = "built"
    /\ \E y \in SectionArgs :
          LET s == get_section(Unwrap(chunk), y)
          IN  last' = [op |-> "get_section", arg |-> <<y>>,
                       out |-> IF IsSome(s) THEN Some(Unwrap(s).y) ELSE None]
    /\ UNCHANGED <<data, given, pc, chunk, cur, coords, res>>

GetSectionVbo ==
    /\ pc = "built"
    /\ \E y \in SectionArgs :
          last' = [op |-> "get_section_vbo", arg |-> <<y>>,
                   out |-> get_section_vbo(Unwrap(chunk), y)]
    /\ UNCHANGED <<data, given, pc, chunk, cur, coords, res>>

QueryCoords == {<<0, 0, 0>>, <<15, 47, 15>>, <<3, 255, 9>>, <<1, -1, 1>>, <<1, 256, 1>>}

BlockAt ==
    /\ pc = "built"
    /\ \E cc \in QueryCoords :
          LET b == block_at(Unwrap(chunk), cc)
          IN  /\ b.ok
              /\ last' = [op |-> "block_at", arg |-> cc, out |-> b.val]
    /\ UNCHANGED <<data, given, pc, chunk, cur, coords, res>>

GetHighestBlock ==
    /\ pc = "built"
    /\ \E xz \in {<<0, 0>>, <<15, 15>>, <<6, 1>>} :
          last' = [op |-> "get_highest_block", arg |-> xz,
                   out |-> Some(get_highest_block(Unwrap(chunk), xz))]
    /\ UNCHANGED <<data, given, pc, chunk, cur, coords, res>>

\* The coordinate functions, each applied to what the one before it gave.
ChunkContaining ==
    /\ pc = "pure" /\ Len(res) = 0
    /\ res' = <<chunk_containing(coords)>>
    /\ UNCHANGED <<data, given, pc, chunk, cur, coords, last>>

MapFromWorldCoords ==
    /\ pc = "pure" /\ Len(res) = 1
    /\ res' = Append(res, map_from_world_coords(coords))
    /\ UNCHANGED <<data, given, pc, chunk, cur, coords, last>>

MapToWorldCoords ==
    /\ pc = "pure" /\ Len(res) = 2
    /\ res' = Append(res, map_to_world_coords(res[1], res[2]))
    /\ UNCHANGED <<data, given, pc, chunk, cur, coords, last>>

MapFromChunkCoords ==
    /\ pc = "pure" /\ Len(res) = 3
    /\ res' = Append(res, map_from_chunk_coords(res[2]))
    /\ UNCHANGED <<data, given, pc, chunk, cur, coords, last>>

BlockPosToIndex ==
    /\ pc = "pure" /\ Len(res) = 4
    /\ res' = Append(res, block_pos_to_index(res[4]))
    /\ UNCHANGED <<data, given, pc, chunk, cur, coords, last>>

BlockIndexToPos ==
    /\ pc = "pure" /\ Len(res) = 5
    /\ res' = Append(res, block_index_to_pos(res[5]))
    /\ UNCHANGED <<data, given, pc, chunk, cur, coords, last>>

---------------------------------------------------------------------------
(* Specifications *)

InitPacket(g, heights) ==
    /\ given = g
    /\ data = BuildData(g, heights)
    /\ pc = "start"
    /\ chunk = None
    /\ cur = 0
    /\ coords = <<0, 0, 0>>
    /\ res = << >>
    /\ last = NoQuery

\* Decoding of the sections: packets well formed, cut short, and corrupt.
InitDecode == \E g \in DecodePackets : InitPacket(g, UsualHeights)
NextDecode == ChunkNew
SpecDecode == InitDecode /\ [][NextDecode]_vars

\* Decoding of the height map: every tree of up to MaxEntries entries of the
\* pool, and a root that is no compound.
MaxEntries == 3
MaxHeightPat == 2
HeightPool(e) ==
    IF e <= MaxHeightPat THEN LongArrayTag("MOTION_BLOCKING", HeightLongs(e, 37))
    ELSE IF e = MaxHeightPat + 1 THEN LongArrayTag("WORLD_SURFACE", HeightLongs(e, 37))
    ELSE IF e = MaxHeightPat + 2 THEN LongArrayTag("MOTION_BLOCKING", << >>)
    ELSE IF e = MaxHeightPat + 3 THEN LongArrayTag("MOTION_BLOCKING", HeightLongs(e, 1))
    ELSE IF e = MaxHeightPat + 4 THEN OtherTag("MOTION_BLOCKING")
    ELSE OtherTag("OTHER")
HeightTree(es) == CompoundOf([k \in 1..Len(es) |-> HeightPool(es[k])])
InitHeight ==
    \/ \E n \in 0..MaxEntries : \E es \in [1..n -> 1..(MaxHeightPat + 5)] :
           InitPacket(Packet(0, << >>, 0), HeightTree(es))
    \/ InitPacket(Packet(0, << >>, 0),
                  [tag |-> "LongArray", entries |-> << >>, longs |-> HeightLongs(1, 37)])
NextHeight == ChunkNew
SpecHeight == InitHeight /\ [][NextHeight]_vars

\* The coordinate functions on the world coordinates around the origin and
\* at the ends of i32.
MaxCoord == 17
CoordRange == (-MaxCoord)..MaxCoord
YSamples == {-MaxCoord, -16, -1, 0, 5, 15, 16, MaxCoord}
I32Ends == {2147483647, -2147483647 - 1}
InitCoords ==
    /\ coords \in (CoordRange \X YSamples \X CoordRange)
                  \cup (I32Ends \X YSamples \X I32Ends)
    /\ res = << >>
    /\ pc = "pure"
    /\ given = Packet(0, << >>, 0)
    /\ data = BuildData(given, CompoundOf(<< >>))
    /\ chunk = None
    /\ cur = 0
    /\ last = NoQuery
NextCoords ==
    \/ ChunkContaining
    \/ MapFromWorldCoords
    \/ MapToWorldCoords
    \/ MapFromChunkCoords
    \/ BlockPosToIndex
    \/ BlockIndexToPos
SpecCoords == InitCoords /\ [][NextCoords]_vars

\* The life of a Chunk: construction, then meshes attached and queries.
ChunkPackets ==
    {Packet(5, PoolRecs(2, 0), 0), Packet(2, PoolRecs(1, 1), 0),
     Packet(0, << >>, 0), Packet(1, PoolRecs(1, 0), 1)}
Init == \E g \in ChunkPackets : InitPacket(g, UsualHeights)
Next ==
    \/ ChunkNew
    \/ LoadMesh
    \/ LoadMeshPanics
    \/ GetSection
    \/ GetSectionVbo
    \/ BlockAt
    \/ GetHighestBlock
Spec == Init /\ [][Next]_vars

---------------------------------------------------------------------------
(* What the sender knows of a packet *)

\* The records are whole, as many as the bitmask has bits, and each sound.
WellFormed(g) ==
    /\ g.cut = 0
    /\ Len(g.recs) = PopCount(g.mask, 0)
    /\ \A k \in 1..Len(g.recs) : g.recs[k].extra = 0 /\ g.recs[k].oob = 0

\* A well formed stream with bytes of its end missing.
Truncated(g) ==
    /\ g.cut > 0
    /\ Len(g.recs) > 0
    /\ WellFormed([g EXCEPT !.cut = 0])

\* A whole stream with a record whose packed value is no index of its
\* palette, or whose long array has not the length its width asks for.
Corrupt(g) ==
    /\ g.cut = 0
    /\ Len(g.recs) = PopCount(g.mask, 0)
    /\ \E k \in 1..Len(g.recs) : g.recs[k].extra # 0 \/ g.recs[k].oob = 1

\* The number of the record of slot i: the bits set in the bitmask up to i.
RecordOf(mask, i) == PopCount(mask, 0) - PopCount(mask, i + 1)

\* The block the sender put in slot j of record r.
SentBlock(r, j) == IF HasPalette(r) THEN PalAt(r, Idx(r, j) + 1) ELSE Idx(r, j)

Built == pc = "built"
SlotOf(i) == Unwrap(chunk).sections[i]
SectionOf(i) == Unwrap(SlotOf(i)).section
Populated == {i \in 0..15 : IsSome(SlotOf(i))}
MaskBits(mask) == {i \in 0..15 : (mask \div Pow2(i)) % 2 = 1}

---------------------------------------------------------------------------
(* C1 *)

\* C1, as stated: every slot j of every populated section holds the palette
\* entry its packed value names (the packed value itself without a
\* palette), the width and the presence of the palette being those of
\* WidthOf.
C1_Original ==
    Built =>
        \A i \in Populated :
            RecordOf(given.mask, i) <= Len(given.recs) =>
                \A j \in 0..4095 :
                    SectionOf(i).blocks[j] = SentBlock(given.recs[RecordOf(given.mask, i)], j)

\* C1, amended: the slot holds the low 16 bits of that palette entry, which
\* is the entry itself when it is a u16; so packed blocks that are u16
\* come back exactly.
C1_Decode ==
    Built =>
        \A i \in Populated :
            RecordOf(given.mask, i) <= Len(given.recs) =>
                \A j \in 0..4095 :
                    SectionOf(i).blocks[j]
                        = SentBlock(given.recs[RecordOf(given.mask, i)], j) % 65536

\* A section of width 7 whose palette has -1 and 70000 is decoded, and slot 1,
\* packed as index 3, holds 65535.
C1_Witness ==
    /\ Built
    /\ given.recs = <<Recipe(7, 2, 1, 0, 0)>>
    /\ Idx(given.recs[1], 1) = 3
    /\ SectionOf(0).blocks[1] = 65535
    /\ \E j \in 0..4095 : SectionOf(0).blocks[j] = 70000 - 65536

---------------------------------------------------------------------------
(* C2 *)

\* C2: when the stream of a packet ends before its last record does,
\* Chunk::new panics and returns no Chunk.
C2_Truncated ==
    (pc # "start" /\ Truncated(given)) => (pc = "panicked" /\ chunk = None)

\* The second of two records is one byte short, the first is whole, and the
\* construction has panicked in the long array of the second.
C2_Witness ==
    /\ pc = "panicked"
    /\ chunk = None
    /\ given.mask = 5
    /\ given.cut = 1
    /\ Truncated(given)
    /\ cur = Len(data.data)

---------------------------------------------------------------------------
(* C6 *)

\* C6, as stated: a packet with a packed value beyond its palette, or with a
\* long array shorter or longer than its width asks for, makes Chunk::new
\* fail and gives no Chunk.
C6_CorruptFails ==
    (pc # "start" /\ Corrupt(given)) => (pc = "panicked" /\ chunk = None)

---------------------------------------------------------------------------
(* C7 *)

\* C7: of a well formed packet, the slots populated are those of the bits of
\* the bitmask; the slot of the k-th bit holds the blocks of the k-th
\* record, y = its index and no artifact; and the cursor ends where the
\* records do.
C7_Slots ==
    (Built /\ WellFormed(given)) =>
        /\ Populated = MaskBits(given.mask)
        /\ cur = StreamLen(given.recs)
        /\ \A i \in Populated :
              /\ SectionOf(i).y = i
              /\ Unwrap(SlotOf(i)).vbo = None
              /\ \A j \in 0..4095 :
                    SectionOf(i).blocks[j]
                        = SentBlock(given.recs[RecordOf(given.mask, i)], j) % 65536

\* Bits 0 and 15 are set: slots 0 and 15 and no other are populated, from the
\* first and the second record.
C7_Witness ==
    /\ Built
    /\ given.mask = 32769
    /\ WellFormed(given)
    /\ Populated = {0, 15}
    /\ SectionOf(15).y = 15
    /\ given.recs[1] # given.recs[2]
    /\ SectionOf(15).blocks[5] = SentBlock(given.recs[2], 5) % 65536
    /\ SectionOf(15).blocks[5] # SentBlock(given.recs[1], 5) % 65536

---------------------------------------------------------------------------
(* C3 *)

\* C3: the chunk position q of a world coordinate has 16q <= x < 16q + 16 on
\* both axes, the local coordinate is (x - 16q, y, z - 16q') with x and z in
\* [0, 16), and map_to_world_coords gives the world coordinate back.
C3_WorldRoundTrip ==
    (pc = "pure" /\ Len(res) >= 3) =>
        /\ 16 * res[1][1] <= coords[1] /\ coords[1] - 16 * res[1][1] < 16
        /\ 16 * res[1][2] <= coords[3] /\ coords[3] - 16 * res[1][2] < 16
        /\ res[2] = <<coords[1] - 16 * res[1][1], coords[2], coords[3] - 16 * res[1][2]>>
        /\ res[2][1] \in 0..15 /\ res[2][3] \in 0..15
        /\ res[3].ok
        /\ res[3].val = coords

\* World (-1, 5, -1) is in chunk (-1, -1) at local (15, 5, 15), and is what
\* that local coordinate maps back to.
C3_Witness ==
    /\ pc = "pure"
    /\ coords = <<-1, 5, -1>>
    /\ Len(res) >= 3
    /\ res[1] = <<-1, -1>>
    /\ res[2] = <<15, 5, 15>>
    /\ res[3].val = <<-1, 5, -1>>

---------------------------------------------------------------------------
(* C5 *)

\* C5: of a chunk coordinate (x, y, z) with x and z in [0, 16), the section
\* coordinate is (x, m, z) with m in [0, 16) and y - m a multiple of 16, the
\* index of the block is m * 256 + z * 16 + x, in [0, 4096), and
\* block_index_to_pos of it is (x, m, z).
C5_SectionIndex ==
    (pc = "pure" /\ Len(res) >= 6) =>
        /\ res[2][1] \in 0..15 /\ res[2][3] \in 0..15
        /\ res[4][1] = res[2][1] /\ res[4][3] = res[2][3]
        /\ res[4][2] \in 0..15
        /\ \E q \in ((res[2][2] \div 16) - 1)..((res[2][2] \div 16) + 1) :
               res[2][2] - res[4][2] = 16 * q
        /\ res[5] = res[4][2] * 256 + res[4][3] * 16 + res[4][1]
        /\ res[5] \in 0..4095
        /\ res[6] = res[4]

\* y = -1 gives the section y 15, and the index found maps back.
C5_Witness ==
    /\ pc = "pure"
    /\ Len(res) = 6
    /\ coords[2] = -1
    /\ res[4][2] = 15
    /\ res[5] = 15 * 256 + res[2][3] * 16 + res[2][1]
    /\ res[6] = <<res[2][1], 15, res[2][3]>>

---------------------------------------------------------------------------
(* C4 and C9 *)

\* The places of the compound that hold a long array named MOTION_BLOCKING.
SurfaceEntries(t) ==
    {k \in 1..Len(t.entries) :
        t.entries[k].name = "MOTION_BLOCKING" /\ t.entries[k].payload.tag = "LongArray"}
SurfaceLongs(t) == t.entries[CHOOSE k \in SurfaceEntries(t) : TRUE].payload.longs

\* The 256 heights the loop takes from a long array: value i from the 9 bits
\* at (i mod 7) * 9 of its first long.
HeightsOf(longs) == [i \in 0..255 |-> ShrMask(longs[1], (i % 7) * 9, 511)]

HeightMap == Unwrap(chunk).heightmap

C9_IndexDriven ==
    (Built /\ data.heightmaps.tag = "Compound" /\ Len(data.heightmaps.entries) = 2
        /\ Cardinality(SurfaceEntries(data.heightmaps)) = 1
        /\ Len(SurfaceLongs(data.heightmaps)) = 37)
    => \A i \in 0..255 :
          HeightMap[i] = ShrMask(SurfaceLongs(data.heightmaps)[(i \div 7) + 1], (i % 7) * 9, 511)

---------------------------------------------------------------------------
(* C10 *)

VboOf(c, i) == Unwrap(c.sections[i]).vbo

\* What every step leaves as it is: the position, the height map, which slots
\* are populated and their sections; an artifact stays an artifact; and a
\* step changes the artifact of at most one slot.
StepKeeps(c, d) ==
    /\ d.pos = c.pos
    /\ d.heightmap = c.heightmap
    /\ \A i \in 0..15 :
          /\ IsSome(d.sections[i]) = IsSome(c.sections[i])
          /\ IsSome(c.sections[i]) =>
                /\ Unwrap(d.sections[i]).section = Unwrap(c.sections[i]).section
                /\ IsSome(VboOf(c, i)) => IsSome(VboOf(d, i))
    /\ \A i, k \in 0..15 :
          (IsSome(c.sections[i]) /\ IsSome(c.sections[k])
              /\ VboOf(d, i) # VboOf(c, i) /\ VboOf(d, k) # VboOf(c, k)) => i = k

\* C10, as stated: once built, no step changes the position, the height map,
\* a block array or which slots are populated, and an artifact once set is
\* never replaced or cleared.
C10_Original ==
    [][(Built /\ chunk' # chunk) =>
          /\ StepKeeps(Unwrap(chunk), Unwrap(chunk'))
          /\ \A i \in 0..15 :
                (IsSome(SlotOf(i)) /\ IsSome(VboOf(Unwrap(chunk), i)))
                    => VboOf(Unwrap(chunk'), i) = VboOf(Unwrap(chunk), i)]_vars

\* C10, amended: an artifact once set is never cleared, but load_mesh on a
\* section that has one puts the new artifact in its place; the rest as
\* stated, and a query changes nothing of the Chunk.
C10_SlotMachine ==
    [][Built =>
          /\ chunk' # chunk => (IsSome(chunk') /\ StepKeeps(Unwrap(chunk), Unwrap(chunk')))
          /\ last' # last => chunk' = chunk]_vars

\* A Chunk with an empty slot, a slot decoded and not meshed, and a slot
\* meshed with the second of the meshes.
C10_Witness ==
    /\ Built
    /\ ~IsSome(SlotOf(1))
    /\ IsSome(SlotOf(0)) /\ VboOf(Unwrap(chunk), 0) = None
    /\ IsSome(SlotOf(2)) /\ VboOf(Unwrap(chunk), 2) = Some(2)

====
